---- MODULE Spec2Model ----
(***************************************************************************)
(* Model of the Quiz-generator backend: the file-to-text pipeline, the     *)
(* POST /generate handler (routes/quizRoutes.js) and chatWithTutor         *)
(* (services/quizGenerator.js).  The pipeline:                             *)
(*   - ContentExtractor: services/contentExtractor.js                      *)
(*   - multer upload and POST /file: services/quizGenerator.js, 320-415    *)
(*   - error handling middleware: routes/quizRoutes.js, 190-197            *)
(*                                                                         *)
(* Text is a sequence of one-character strings.  A media type is the pair  *)
(* <<major, minor>>, standing for the string major/minor.  The uploads     *)
(* directory is the function fs from the paths of the files that exist to  *)
(* their contents.                                                         *)
(***************************************************************************)
EXTENDS Integers, Sequences, FiniteSets, TLC

VARIABLES
    clock,      \* the value Date.now() returns
    fs,         \* uploads directory: path -> content, for the files that exist
    req,        \* per request: position in the code, req.file, observations
    text,       \* normaliser harness: the current string
    prev,       \* normaliser harness: the string before the last application
    applied,    \* normaliser harness: how many times cleanContent was applied
    gen,        \* POST /generate: the request, its position, its observations
    chat        \* chatWithTutor: the call, its position, its observations

vars == <<clock, fs, req, text, prev, applied, gen, chat>>

(***************************************************************************)
(* Bounds of the model.                                                    *)
(***************************************************************************)
MaxLen == 6        \* longest input string of the normaliser harness
MaxApply == 2      \* applications of cleanContent in the harness
MaxTime == 1       \* Date.now() ranges over 0..MaxTime
MaxRand == 1       \* Math.round(Math.random() * 1E9) ranges over 0..MaxRand
NumReqs == 2       \* requests that may be in flight together
MaxTypes == 2      \* longest questionTypes array of a POST /generate body
MaxHistory == 2    \* longest chatHistory array of a chatWithTutor call

Reqs == 1..NumReqs

(***************************************************************************)
(* Characters and strings.                                                 *)
(***************************************************************************)
NL == "\n"
Blank == {" ", "\t"}                         \* the class [ \t]
NBSP == " "                             \* U+00A0 NO-BREAK SPACE

\* What String.prototype.trim strips: the WhiteSpace and LineTerminator code
\* points of ECMAScript.  A code point that cannot be written in a string of
\* this module stands as its name, "U+2028".
WhiteSpace ==
    {"\t", "\n", "", "\f", "\r", " ", NBSP, " ", "﻿"}   \* U+0009..U+000D, U+0020, U+00A0, U+1680, U+FEFF
        \cup {"U+2000", "U+2001", "U+2002", "U+2003", "U+2004", "U+2005", "U+2006",
              "U+2007", "U+2008", "U+2009", "U+200A"}
        \cup {"U+2028", "U+2029", "U+202F", "U+205F", "U+3000"}
Alphabet == {"a", " ", "\t", "\n", NBSP}

RECURSIVE StringsUpTo(_)
StringsUpTo(n) ==
    IF n = 0 THEN {<<>>}
    ELSE LET shorter == StringsUpTo(n - 1)
         IN  shorter \cup {Append(s, c) : s \in {t \in shorter : Len(t) = n - 1}, c \in Alphabet}

\* "  Hello   World  \n\n\n\nBye  "
HelloRaw ==
    <<" ", " ", "H", "e", "l", "l", "o", " ", " ", " ", "W", "o", "r", "l", "d",
      " ", " ", "\n", "\n", "\n", "\n", "B", "y", "e", " ", " ">>
\* "Hello World\n\nBye"
HelloClean ==
    <<"H", "e", "l", "l", "o", " ", "W", "o", "r", "l", "d", "\n", "\n", "B", "y", "e">>
\* "a\n \n\nb"
GappedRaw == <<"a", "\n", " ", "\n", "\n", "b">>

(***************************************************************************)
(* ContentExtractor.cleanContent                                           *)
(***************************************************************************)
\* .replace(/[ \t]+/g, ' ')
RECURSIVE CollapseBlanks(_)
CollapseBlanks(s) ==
    IF s = <<>> THEN <<>>
    ELSE IF Head(s) \in Blank
         THEN IF Len(s) > 1 /\ s[2] \in Blank
              THEN CollapseBlanks(Tail(s))
              ELSE <<" ">> \o CollapseBlanks(Tail(s))
         ELSE <<Head(s)>> \o CollapseBlanks(Tail(s))

\* length of the run of newlines s starts with
RECURSIVE NewlineRun(_)
NewlineRun(s) ==
    IF s = <<>> \/ Head(s) # NL THEN 0 ELSE 1 + NewlineRun(Tail(s))

\* .replace(/\n{3,}/g, '\n\n')
RECURSIVE CollapseNewlines(_)
CollapseNewlines(s) ==
    IF s = <<>> THEN <<>>
    ELSE LET k == NewlineRun(s)
         IN  IF k = 0 THEN <<Head(s)>> \o CollapseNewlines(Tail(s))
             ELSE [i \in 1..(IF k >= 3 THEN 2 ELSE k) |-> NL]
                    \o CollapseNewlines(SubSeq(s, k + 1, Len(s)))

\* .split('\n'): the lines of s, at least one
RECURSIVE SplitLines(_)
SplitLines(s) ==
    IF \A i \in 1..Len(s) : s[i] # NL THEN <<s>>
    ELSE LET i == CHOOSE j \in 1..Len(s) : s[j] = NL /\ \A k \in 1..(j - 1) : s[k] # NL
         IN  <<SubSeq(s, 1, i - 1)>> \o SplitLines(SubSeq(s, i + 1, Len(s)))

\* String.prototype.trim
RECURSIVE TrimLeft(_)
TrimLeft(s) ==
    IF s # <<>> /\ Head(s) \in WhiteSpace THEN TrimLeft(Tail(s)) ELSE s

RECURSIVE TrimRight(_)
TrimRight(s) ==
    IF s # <<>> /\ s[Len(s)] \in WhiteSpace THEN TrimRight(SubSeq(s, 1, Len(s) - 1)) ELSE s

Trim(s) == TrimRight(TrimLeft(s))

\* .join('\n')
RECURSIVE JoinLines(_)
JoinLines(ls) ==
    IF Len(ls) = 0 THEN <<>>
    ELSE IF Len(ls) = 1 THEN ls[1]
    ELSE ls[1] \o <<NL>> \o JoinLines(Tail(ls))

cleanContent(content) ==
    IF content = <<>> THEN <<>>
    ELSE LET lines == SplitLines(CollapseNewlines(CollapseBlanks(content)))
         IN  Trim(JoinLines([i \in 1..Len(lines) |-> Trim(lines[i])]))

\* TRUE iff s holds three newline characters in a row
HasTripleNewline(s) ==
    \E i \in 1..(Len(s) - 2) : s[i] = NL /\ s[i + 1] = NL /\ s[i + 2] = NL

(***************************************************************************)
(* Normaliser harness: cleanContent applied repeatedly to a bounded input. *)
(***************************************************************************)
InitClean ==
    /\ clock = 0
    /\ fs = <<>>
    /\ req = <<>>
    /\ text \in StringsUpTo(MaxLen)
    /\ prev = text
    /\ applied = 0
    /\ gen = <<>>
    /\ chat = <<>>

ApplyClean ==
    /\ applied < MaxApply
    /\ prev' = text
    /\ text' = cleanContent(text)
    /\ applied' = applied + 1
    /\ UNCHANGED <<clock, fs, req, gen, chat>>

NextClean == ApplyClean

SpecClean == InitClean /\ [][NextClean]_vars

\* C2: cleanContent is idempotent: applying it to its own output changes nothing.
C2_Idempotent == applied >= 2 => text = prev

\* C7: the output of cleanContent never holds three consecutive newlines.
C7_NoTripleNewline == applied >= 1 => ~HasTripleNewline(text)


(***************************************************************************)
(* Media types, file names, paths.                                         *)
(***************************************************************************)
MimeStr(mimeType) == mimeType[1] \o "/" \o mimeType[2]

\* mimeType.startsWith('image/'): the major type, up to and including the slash
StartsWithImage(mimeType) == (mimeType[1] \o "/") = "image/"

NoMime == <<"", "">>
MimeTypes ==
    {<<"application", "pdf">>, <<"image", "jpeg">>, <<"image", "png">>, <<"image", "gif">>,
     <<"image", "webp">>, <<"text", "plain">>, <<"application", "json">>,
     <<"image", "svg+xml">>}
Names == {"notes.txt"}
Contents == {HelloRaw, GappedRaw}
Causes == {"bad XRef entry"}            \* error.message of a decoder / OCR failure
DirectPaths == {"uploads/doc"}          \* file.path of a direct call

allowedTypes ==
    {"application/pdf", "image/jpeg", "image/png", "image/gif", "image/webp", "text/plain"}

fileFilter_acceptAll(mimeType) == TRUE

fileFilter(mimeType) == MimeStr(mimeType) \in allowedTypes

InvalidTypeMessage ==
    "Invalid file type. Allowed: PDF, Images (JPEG, PNG, GIF, WebP), Text files"

\* Date.now() + '-' + Math.round(Math.random() * 1E9) + '-' + file.originalname,
\* rnd being the rounded random number
filename(now, rnd, originalname) ==
    ToString(now) \o "-" \o ToString(rnd) \o "-" \o originalname

\* path.join(destination, filename)
destination(name) == "uploads/" \o name

(***************************************************************************)
(* File system primitives.                                                 *)
(***************************************************************************)
existsSync(fsys, p) == p \in DOMAIN fsys

writeFile(fsys, p, data) ==
    [q \in (DOMAIN fsys) \cup {p} |-> IF q = p THEN data ELSE fsys[q]]

removeFile(fsys, p) == [q \in (DOMAIN fsys) \ {p} |-> fsys[q]]

\* fs.readFileSync: the data, or the error it throws (ioOk: the device answers)
readFileSync(fsys, p, ioOk) ==
    IF ~existsSync(fsys, p)
    THEN [ok |-> FALSE, data |-> <<>>,
          message |-> "ENOENT: no such file or directory, open '" \o p \o "'"]
    ELSE IF ~ioOk
    THEN [ok |-> FALSE, data |-> <<>>,
          message |-> "EACCES: permission denied, open '" \o p \o "'"]
    ELSE [ok |-> TRUE, data |-> fsys[p], message |-> ""]

(***************************************************************************)
(* ContentExtractor.cleanupFile                                            *)
(* unlinkOk: whether fs.unlinkSync succeeds on an existing file.           *)
(* raised tells whether the call throws to its caller.                     *)
(***************************************************************************)
cleanupFile_rethrow(fsys, filePath, unlinkOk) ==
    IF existsSync(fsys, filePath)
    THEN IF unlinkOk
         THEN [fs |-> removeFile(fsys, filePath), unlinked |-> 1, failed |-> FALSE,
               raised |-> FALSE]
         ELSE [fs |-> fsys, unlinked |-> 0, failed |-> TRUE, raised |-> TRUE]
    ELSE [fs |-> fsys, unlinked |-> 0, failed |-> FALSE, raised |-> FALSE]

cleanupFile_noUnlink(fsys, filePath, unlinkOk) ==
    [fs |-> fsys, unlinked |-> 0, failed |-> FALSE, raised |-> FALSE]

cleanupFile(fsys, filePath, unlinkOk) ==
    IF existsSync(fsys, filePath)
    THEN IF unlinkOk
         THEN [fs |-> removeFile(fsys, filePath), unlinked |-> 1, failed |-> FALSE,
               raised |-> FALSE]
         ELSE [fs |-> fsys, unlinked |-> 0, failed |-> TRUE, raised |-> FALSE]
    ELSE [fs |-> fsys, unlinked |-> 0, failed |-> FALSE, raised |-> FALSE]

\* error.message of the Error a failing fs.unlinkSync(filePath) throws
CleanupErrorMessage(filePath) ==
    "EPERM: operation not permitted, unlink '" \o filePath \o "'"

(***************************************************************************)
(* The three extractors.  Each yields [ok, text, message]: the text it     *)
(* returns, or the message of the Error it throws.                         *)
(***************************************************************************)
Returned(t) == [ok |-> TRUE, text |-> t, message |-> ""]
Thrown(m) == [ok |-> FALSE, text |-> <<>>, message |-> m]

\* rd: the outcome of fs.readFileSync; parse: the outcome of pdfParse(dataBuffer),
\* whose text layer is the data read
extractFromPDF(rd, parse) ==
    IF ~rd.ok THEN Thrown("Failed to extract text from PDF: " \o rd.message)
    ELSE IF ~parse.ok THEN Thrown("Failed to extract text from PDF: " \o parse.cause)
    ELSE Returned(rd.data)

\* rd: the outcome of the OCR worker's read of filePath; ocr: the outcome of
\* recognition, whose text is the data read
extractFromImage(rd, ocr) ==
    IF ~rd.ok THEN Thrown("Failed to extract text from image: " \o rd.message)
    ELSE IF ~ocr.ok THEN Thrown("Failed to extract text from image: " \o ocr.cause)
    ELSE Returned(rd.data)

extractFromText_normalizing(rd) ==
    IF ~rd.ok THEN Thrown("Failed to read text file: " \o rd.message)
    ELSE Returned(cleanContent(rd.data))

extractFromText(rd) ==
    IF ~rd.ok THEN Thrown("Failed to read text file: " \o rd.message)
    ELSE Returned(rd.data)

LibOutcomes == {[ok |-> TRUE, cause |-> ""]} \cup {[ok |-> FALSE, cause |-> c] : c \in Causes}

(***************************************************************************)
(* ContentExtractor.extractFromFile                                        *)
(***************************************************************************)
selectExtractor_textFallback(mimeType) ==
    IF MimeStr(mimeType) = "application/pdf" THEN "pdf"
    ELSE IF StartsWithImage(mimeType) THEN "image"
    ELSE "text"

selectExtractor_allowListed(mimeType) ==
    IF MimeStr(mimeType) = "application/pdf" THEN "pdf"
    ELSE IF MimeStr(mimeType) \in {"image/jpeg", "image/png", "image/gif", "image/webp"}
         THEN "image"
    ELSE IF MimeStr(mimeType) = "text/plain" THEN "text"
    ELSE "none"

\* the if / else-if chain on mimeType
selectExtractor(mimeType) ==
    IF MimeStr(mimeType) = "application/pdf" THEN "pdf"
    ELSE IF StartsWithImage(mimeType) THEN "image"
    ELSE IF MimeStr(mimeType) = "text/plain" THEN "text"
    ELSE "none"

UnsupportedMessage(mimeType) == "Unsupported file type: " \o MimeStr(mimeType)

\* What follows the extractor in the try block, and the catch block.
\* ext: what the selected extractor returned or threw (or the unsupported-type
\* Error); unlinkOk: whether fs.unlinkSync succeeds on this file.
settle(fsys, filePath, ext, unlinkOk) ==
    LET c1 == cleanupFile(fsys, filePath, unlinkOk)
        c2 == cleanupFile(c1.fs, filePath, unlinkOk)
    IN  IF ext.ok
        THEN IF ~c1.raised
             THEN [fs |-> c1.fs, outcome |-> Returned(cleanContent(ext.text)),
                   cleanups |-> 1, unlinks |-> c1.unlinked,
                   unlinkFailed |-> c1.failed, cleanupRaised |-> FALSE]
             ELSE \* cleanupFile threw inside try: the catch block runs it again
                  [fs |-> c2.fs, outcome |-> Thrown(CleanupErrorMessage(filePath)),
                   cleanups |-> 2, unlinks |-> c1.unlinked + c2.unlinked,
                   unlinkFailed |-> c1.failed \/ c2.failed, cleanupRaised |-> TRUE]
        ELSE [fs |-> c1.fs,
              outcome |-> IF c1.raised THEN Thrown(CleanupErrorMessage(filePath)) ELSE Thrown(ext.message),
              cleanups |-> 1, unlinks |-> c1.unlinked,
              unlinkFailed |-> c1.failed, cleanupRaised |-> c1.raised]

(***************************************************************************)
(* HTTP boundary: POST /file responses and the error handling middleware.  *)
(***************************************************************************)
NoResponse == [status |-> 0, success |-> FALSE, error |-> "", content |-> <<>>, contentLength |-> 0]

successResponse(content) ==
    [status |-> 200, success |-> TRUE, error |-> "", content |-> content,
     contentLength |-> Len(content)]

noFileResponse ==
    [status |-> 400, success |-> FALSE, error |-> "No file uploaded", content |-> <<>>,
     contentLength |-> 0]

errorMiddleware_generic(status, message) ==
    [status |-> IF status = 0 THEN 500 ELSE status, success |-> FALSE,
     error |-> "Internal server error", content |-> <<>>, contentLength |-> 0]

\* status: err.status (0 when undefined); message: err.message
errorMiddleware(status, message) ==
    [status |-> IF status = 0 THEN 500 ELSE status, success |-> FALSE,
     error |-> IF message = "" THEN "Internal server error" ELSE message,
     content |-> <<>>, contentLength |-> 0]

\* the handler's res.json(...) / next(error) after extractFromFile settles
respond(outcome) ==
    IF outcome.ok THEN successResponse(outcome.text)
    ELSE errorMiddleware(0, outcome.message)


(***************************************************************************)
(* Requests.  pc is the position in the code:                              *)
(*   absent       no such client in this specification                     *)
(*   idle         not yet arrived                                          *)
(*   uploaded     multer stored the file; the POST /file handler is next   *)
(*   called       extractFromFile(file) called directly by a caller        *)
(*   parsing      suspended in extractFromPDF at  await pdfParse(...)      *)
(*   recognizing  suspended in extractFromImage at  await Tesseract...     *)
(*   extracted    the extractor has settled; extractFromFile is suspended  *)
(*                at its  await this.extractFrom...(filePath)              *)
(*   settled      extractFromFile has returned or thrown; the handler is   *)
(*                suspended at its  await contentExtractor.extractFromFile *)
(*   done         responded (a request of the route) / settled (a direct   *)
(*                call)                                                    *)
(* The remaining fields observe what the call did.                         *)
(***************************************************************************)
NoOutcome == [ok |-> FALSE, text |-> <<>>, message |-> ""]

IdleReq ==
    [pc |-> "idle", via |-> "none", hasFile |-> FALSE, path |-> "", mimetype |-> NoMime,
     rd |-> [ok |-> FALSE, data |-> <<>>, message |-> ""],
     invoked |-> FALSE, existedAtEntry |-> FALSE, calls |-> <<>>, reads |-> 0,
     ext |-> NoOutcome, cleanups |-> 0, unlinks |-> 0, unlinkFailed |-> FALSE,
     cleanupRaised |-> FALSE, existsAtExit |-> FALSE, outcome |-> NoOutcome,
     response |-> NoResponse]

InitPipeline(slots) ==
    /\ clock = 0
    /\ fs = <<>>
    /\ req = [r \in Reqs |-> IF r \in slots THEN IdleReq ELSE [IdleReq EXCEPT !.pc = "absent"]]
    /\ text = <<>>
    /\ prev = <<>>
    /\ applied = 0
    /\ gen = <<>>
    /\ chat = <<>>

\* Date.now() advances
Tick ==
    /\ clock < MaxTime
    /\ clock' = clock + 1
    /\ UNCHANGED <<fs, req, text, prev, applied, gen, chat>>

\* A caller hands extractFromFile a file object of its own; the file it names
\* may be there (the caller stored it) or not.
DirectCall(r) ==
    /\ req[r].pc = "idle"
    /\ \E p \in DirectPaths, m \in MimeTypes, present \in BOOLEAN, c \in Contents :
          /\ fs' = IF present THEN writeFile(fs, p, c) ELSE fs
          /\ req' = [req EXCEPT ![r] =
                        [IdleReq EXCEPT !.pc = "called", !.via = "direct", !.hasFile = TRUE,
                                        !.path = p, !.mimetype = m]]
    /\ UNCHANGED <<clock, text, prev, applied, gen, chat>>

\* POST /file without a file part: upload.single leaves req.file undefined and the
\* handler answers 400.
UploadNoFile(r) ==
    /\ req[r].pc = "idle"
    /\ req' = [req EXCEPT ![r] =
                  [IdleReq EXCEPT !.pc = "done", !.via = "route", !.response = noFileResponse]]
    /\ UNCHANGED <<clock, fs, text, prev, applied, gen, chat>>

\* POST /file with a file part fileFilter refuses: multer passes the Error to
\* next(), nothing is stored and the handler does not run.
UploadRejected(r) ==
    /\ req[r].pc = "idle"
    /\ \E m \in MimeTypes :
          /\ ~fileFilter(m)
          /\ req' = [req EXCEPT ![r] =
                        [IdleReq EXCEPT !.pc = "done", !.via = "route", !.mimetype = m,
                                        !.response = errorMiddleware(0, InvalidTypeMessage)]]
    /\ UNCHANGED <<clock, fs, text, prev, applied, gen, chat>>

\* POST /file with a file part fileFilter accepts: diskStorage names the file and
\* stores it under uploads/.
UploadStored(r) ==
    /\ req[r].pc = "idle"
    /\ \E m \in MimeTypes, name \in Names, c \in Contents, rnd \in 0..MaxRand :
          /\ fileFilter(m)
          /\ LET p == destination(filename(clock, rnd, name))
             IN  /\ fs' = writeFile(fs, p, c)
                 /\ req' = [req EXCEPT ![r] =
                               [IdleReq EXCEPT !.pc = "uploaded", !.via = "route",
                                               !.hasFile = TRUE, !.path = p, !.mimetype = m]]
    /\ UNCHANGED <<clock, text, prev, applied, gen, chat>>

\* extractFromFile settles: the rest of the try block or the catch block.  The
\* handler of the route, suspended at its await, answers in a later turn.
Settled(r, f, ext, unlinkOk) ==
    LET s == settle(fs, f.path, ext, unlinkOk)
    IN  /\ fs' = s.fs
        /\ req' = [req EXCEPT ![r] =
                      [f EXCEPT !.pc = IF f.via = "route" THEN "settled" ELSE "done",
                                !.ext = ext, !.cleanups = s.cleanups,
                                !.unlinks = s.unlinks, !.unlinkFailed = s.unlinkFailed,
                                !.cleanupRaised = s.cleanupRaised,
                                !.existsAtExit = existsSync(s.fs, f.path),
                                !.outcome = s.outcome]]

\* The extractor's promise has settled with ext; extractFromFile waits at its
\* await for the continuation that cleans up.
Extracted(r, f, ext) ==
    /\ req' = [req EXCEPT ![r] = [f EXCEPT !.pc = "extracted", !.ext = ext]]
    /\ fs' = fs

\* The handler calls extractFromFile(req.file), which runs to its first
\* suspension.  An unsupported type throws inside the try block and the catch
\* block cleans up at once, before the handler can answer.  readFileSync is synchronous: extractFromText, and
\* extractFromPDF when the read fails, settle here, and extractFromFile is
\* suspended at its await; extractFromPDF is suspended at pdfParse when the
\* read succeeds, extractFromImage at Tesseract.recognize.
Handle(r) ==
    /\ req[r].pc \in {"uploaded", "called"}
    /\ LET sel == selectExtractor(req[r].mimetype)
           f == [req[r] EXCEPT !.invoked = TRUE,
                               !.existedAtEntry = existsSync(fs, req[r].path)]
       IN  IF sel = "image"
           THEN /\ req' = [req EXCEPT ![r] =
                              [f EXCEPT !.pc = "recognizing", !.calls = <<"image">>]]
                /\ fs' = fs
           ELSE IF sel = "none"
           THEN \E unlinkOk \in BOOLEAN :
                   Settled(r, f, Thrown(UnsupportedMessage(f.mimetype)), unlinkOk)
           ELSE \E ioOk \in BOOLEAN :
                   LET rd == readFileSync(fs, f.path, ioOk)
                       g == [f EXCEPT !.calls = <<sel>>, !.reads = 1, !.rd = rd]
                   IN  IF sel = "pdf" /\ rd.ok
                       THEN /\ req' = [req EXCEPT ![r] = [g EXCEPT !.pc = "parsing"]]
                            /\ fs' = fs
                       ELSE Extracted(r, g,
                                      IF sel = "pdf"
                                      THEN extractFromPDF(rd, [ok |-> TRUE, cause |-> ""])
                                      ELSE extractFromText(rd))
    /\ UNCHANGED <<clock, text, prev, applied, gen, chat>>

\* pdfParse completes, and extractFromPDF settles.
ResumePDF(r) ==
    /\ req[r].pc = "parsing"
    /\ \E lib \in LibOutcomes :
          Extracted(r, req[r], extractFromPDF(req[r].rd, lib))
    /\ UNCHANGED <<clock, text, prev, applied, gen, chat>>

\* Tesseract.recognize reads the file and completes, and extractFromImage settles.
ResumeImage(r) ==
    /\ req[r].pc = "recognizing"
    /\ \E lib \in LibOutcomes, ioOk \in BOOLEAN :
          LET rd == readFileSync(fs, req[r].path, ioOk)
          IN  Extracted(r, [req[r] EXCEPT !.reads = 1, !.rd = rd],
                        extractFromImage(rd, lib))
    /\ UNCHANGED <<clock, text, prev, applied, gen, chat>>

\* extractFromFile resumes after its await: cleanupFile and return in the try
\* block, or the catch block.
Finish(r) ==
    /\ req[r].pc = "extracted"
    /\ \E unlinkOk \in BOOLEAN : Settled(r, req[r], req[r].ext, unlinkOk)
    /\ UNCHANGED <<clock, text, prev, applied, gen, chat>>

\* The POST /file handler resumes after its await: res.json(...) with the
\* content, or next(error) and the answer of the error middleware.
Respond(r) ==
    /\ req[r].pc = "settled"
    /\ req' = [req EXCEPT ![r] =
                  [req[r] EXCEPT !.pc = "done", !.response = respond(req[r].outcome)]]
    /\ UNCHANGED <<clock, fs, text, prev, applied, gen, chat>>

\* One client: a direct call of ContentExtractor.extractFromFile, or a POST /file
\* request behind upload.single('file').
Next ==
    \/ Tick
    \/ \E r \in Reqs :
          \/ DirectCall(r)
          \/ UploadNoFile(r) \/ UploadRejected(r) \/ UploadStored(r)
          \/ Handle(r) \/ ResumePDF(r) \/ ResumeImage(r) \/ Finish(r) \/ Respond(r)

Spec == InitPipeline({1}) /\ [][Next]_vars

\* NumReqs POST /file requests in flight together.
NextUpload ==
    \/ Tick
    \/ \E r \in Reqs :
          \/ UploadNoFile(r) \/ UploadRejected(r) \/ UploadStored(r)
          \/ Handle(r) \/ ResumePDF(r) \/ ResumeImage(r) \/ Finish(r) \/ Respond(r)

SpecUpload == InitPipeline(Reqs) /\ [][NextUpload]_vars


(***************************************************************************)
(* Properties.                                                             *)
(***************************************************************************)
\* extractFromFile was called for r and has returned or thrown
Done(r) == req[r].pc \in {"settled", "done"} /\ req[r].invoked

\* the route has answered r
Answered(r) == req[r].pc = "done" /\ req[r].via = "route"

\* r's file is on disk and r has not yet settled
InFlight(r) == req[r].pc \in {"uploaded", "parsing", "recognizing", "extracted"}

\* neither application/pdf, nor image/..., nor text/plain
Unsupported(m) ==
    /\ m # <<"application", "pdf">>
    /\ m[1] # "image"
    /\ m # <<"text", "plain">>

\* C1 (as claimed): after the call the file that was handed over has been deleted
\* exactly once and no longer exists, on every exit path.
C1_FileGoneAfterCall ==
    \A r \in Reqs :
        Done(r) /\ req[r].existedAtEntry => req[r].unlinks = 1 /\ ~req[r].existsAtExit

\* C1 (amended): every call invokes cleanupFile exactly once before it returns or
\* throws, on every exit path, with at most one unlink; when the call ends the file
\* exists exactly if that unlink failed.
C1_OneCleanupAttempt ==
    \A r \in Reqs :
        Done(r) => /\ req[r].cleanups = 1
                   /\ req[r].unlinks <= 1
                   /\ req[r].existsAtExit <=> req[r].unlinkFailed

C1_Witness ==
    \E r \in Reqs :
        /\ Done(r) /\ ~req[r].outcome.ok /\ req[r].calls # <<>>
        /\ req[r].existedAtEntry /\ req[r].unlinks = 1 /\ ~req[r].existsAtExit

\* C3 (as claimed): a call with an unsupported media type neither reads nor
\* deletes nor otherwise touches the file.
C3_UnsupportedLeavesFile ==
    \A r \in Reqs :
        Done(r) /\ Unsupported(req[r].mimetype)
            => /\ req[r].reads = 0
               /\ req[r].unlinks = 0
               /\ req[r].existedAtEntry => req[r].existsAtExit

\* C3 (amended): a call with an unsupported media type fails without invoking an
\* extractor or reading the file, and then cleans up like every failing call: a
\* file that exists is unlinked, and is gone unless the unlink fails.
C3_UnsupportedNotReadButCleaned ==
    \A r \in Reqs :
        Done(r) /\ Unsupported(req[r].mimetype)
            => /\ req[r].calls = <<>>
               /\ req[r].reads = 0
               /\ ~req[r].outcome.ok
               /\ req[r].cleanups = 1
               /\ req[r].existedAtEntry /\ ~req[r].unlinkFailed
                     => req[r].unlinks = 1 /\ ~req[r].existsAtExit

C3_Witness ==
    \E r \in Reqs :
        /\ Done(r) /\ Unsupported(req[r].mimetype)
        /\ req[r].existedAtEntry /\ req[r].unlinks = 1 /\ ~req[r].existsAtExit

\* C4: the extractor is selected by the declared media type alone: exactly
\* application/pdf runs only the PDF extractor, image/... only OCR, exactly
\* text/plain only the plain-text extractor; any other type runs none, reads
\* nothing and fails with the unsupported-type error.
C4_DispatchByMediaType ==
    \A r \in Reqs :
        req[r].invoked =>
            LET m == req[r].mimetype
            IN  /\ m = <<"application", "pdf">> => req[r].calls = <<"pdf">>
                /\ m[1] = "image" => req[r].calls = <<"image">>
                /\ m = <<"text", "plain">> => req[r].calls = <<"text">>
                /\ Unsupported(m) =>
                      /\ Done(r)
                      /\ req[r].calls = <<>>
                      /\ req[r].reads = 0
                      /\ req[r].outcome = Thrown("Unsupported file type: " \o m[1] \o "/" \o m[2])

C4_Witness ==
    \E r \in Reqs :
        /\ Done(r) /\ req[r].mimetype = <<"application", "json">>
        /\ req[r].reads = 0
        /\ req[r].outcome.message = "Unsupported file type: application/json"

\* C5: cleanupFile never throws to its caller, and the outcome of extractFromFile
\* is decided by what the extractor did alone, whatever the delete does.
C5_OutcomeIgnoresCleanup ==
    \A r \in Reqs :
        Done(r) => /\ ~req[r].cleanupRaised
                   /\ req[r].outcome = IF req[r].ext.ok
                                       THEN Returned(cleanContent(req[r].ext.text))
                                       ELSE Thrown(req[r].ext.message)

C5_Witness ==
    \E r \in Reqs :
        /\ Done(r) /\ req[r].unlinkFailed /\ req[r].existsAtExit
        /\ req[r].outcome.ok /\ req[r].outcome.text = HelloClean

\* C6: when the selected extractor throws, extractFromFile throws that same
\* error, after one extractor call and no content, and the route answers with
\* the envelope {success: false, error: message}, the message unchanged.
C6_ExtractorFailurePropagates ==
    \A r \in Reqs :
        Done(r) /\ req[r].calls # <<>> /\ ~req[r].ext.ok
            => /\ Len(req[r].calls) = 1
               /\ req[r].reads <= 1
               /\ req[r].outcome = Thrown(req[r].ext.message)
               /\ Answered(r)
                     => req[r].response =
                           [status |-> 500, success |-> FALSE, error |-> req[r].ext.message,
                            content |-> <<>>, contentLength |-> 0]

C6_Witness ==
    \E r \in Reqs :
        /\ Done(r) /\ Answered(r) /\ req[r].calls = <<"pdf">>
        /\ ~req[r].response.success
        /\ req[r].response.error = "Failed to extract text from PDF: bad XRef entry"

\* C8: for a readable text/plain file with content c the extractor returns c
\* verbatim and extractFromFile returns cleanContent(c), normalised once; the
\* "  Hello   World  \n\n\n\nBye  " file yields "Hello World\n\nBye".
C8_PlainTextNormalisedOnce ==
    \A r \in Reqs :
        Done(r) /\ req[r].mimetype = <<"text", "plain">> /\ req[r].rd.ok
            => /\ req[r].ext = Returned(req[r].rd.data)
               /\ req[r].outcome = Returned(cleanContent(req[r].rd.data))
               /\ req[r].rd.data = HelloRaw => req[r].outcome.text = HelloClean

C8_Witness ==
    \E r \in Reqs :
        /\ Done(r) /\ req[r].mimetype = <<"text", "plain">>
        /\ req[r].rd.ok /\ req[r].rd.data = HelloRaw
        /\ req[r].outcome.text = HelloClean

\* C9: two upload requests in flight together own distinct temporary paths, and
\* a request's file stays on disk until its own call cleans it up.
C9_DistinctPaths ==
    /\ \A r, s \in Reqs :
          r # s /\ InFlight(r) /\ InFlight(s) => req[r].path # req[s].path
    /\ \A r \in Reqs : InFlight(r) => existsSync(fs, req[r].path)

\* C10: through the upload route extractFromFile is only invoked with a file of
\* one of the six allowed media types; an upload of another type, or a request
\* without a file, is answered with an error and the extractor is never invoked.
C10_OnlyAllowedTypesReachExtractor ==
    \A r \in Reqs :
        req[r].via = "route" =>
            LET allowed == req[r].hasFile /\ req[r].mimetype \in
                              {<<"application", "pdf">>, <<"image", "jpeg">>, <<"image", "png">>,
                               <<"image", "gif">>, <<"image", "webp">>, <<"text", "plain">>}
            IN  /\ req[r].invoked => allowed
                /\ ~allowed => /\ req[r].pc = "done"
                               /\ ~req[r].invoked
                               /\ req[r].reads = 0
                               /\ ~req[r].response.success
                               /\ req[r].response.status \in {400, 500}

C10_Witness ==
    \E r \in Reqs :
        /\ Done(r) /\ Answered(r)
        /\ req[r].mimetype = <<"image", "webp">> /\ req[r].response.success


(***************************************************************************)
(* JavaScript values of a JSON request body.  A value is a record tagged   *)
(* by its type: undefined (the field is absent), null, boolean, number (an *)
(* integer), string, array (of values), object (its own properties, a      *)
(* sequence of key and value in the order of the body; no value of a JSON  *)
(* body is a function).  The strings of content, of numberOfQuestions and  *)
(* of a value that is asked for its length are sequences of characters;    *)
(* other strings are atoms.                                                *)
(***************************************************************************)
Undefined == [t |-> "undefined"]
Null == [t |-> "null"]
Bool(b) == [t |-> "boolean", v |-> b]
Num(n) == [t |-> "number", v |-> n]
Str(x) == [t |-> "string", v |-> x]
Arr(xs) == [t |-> "array", v |-> xs]
Obj(props) == [t |-> "object", v |-> props]
Prop(key, value) == [key |-> key, value |-> value]

\* o has an own property named key
HasOwn(o, key) == \E i \in 1..Len(o.v) : o.v[i].key = key

\* o[key] of an object: the own property (the last of that name in the body),
\* or undefined; the inherited properties are read where they are called
GetOwn(o, key) ==
    IF ~HasOwn(o, key) THEN Undefined
    ELSE LET i == CHOOSE j \in 1..Len(o.v) :
                     /\ o.v[j].key = key
                     /\ \A k \in (j + 1)..Len(o.v) : o.v[k].key # key
         IN  o.v[i].value

\* v.length, v neither null nor undefined
LengthOf(v) ==
    IF v.t \in {"array", "string"} THEN Num(Len(v.v))
    ELSE IF v.t = "object" THEN GetOwn(v, "length")
    ELSE Undefined

\* message of the TypeError of ToPrimitive
PrimitiveError == "Cannot convert object to primitive value"

\* ToPrimitive(v) returns: an object is converted by the toString it inherits,
\* its valueOf returning the object itself, and an own toString, which is no
\* function, leaves nothing to call; an array is converted by join, which
\* converts every element but null and undefined
RECURSIVE Converts(_)
Converts(v) ==
    IF v.t = "object" THEN ~HasOwn(v, "toString")
    ELSE IF v.t = "array"
    THEN \A i \in 1..Len(v.v) : v.v[i].t \in {"undefined", "null"} \/ Converts(v.v[i])
    ELSE TRUE

\* !v
Falsy(v) ==
    \/ v.t \in {"undefined", "null"}
    \/ v.t = "boolean" /\ ~v.v
    \/ v.t = "number" /\ v.v = 0
    \/ v.t = "string" /\ Len(v.v) = 0

\* a default of a destructuring pattern applies to undefined only
WithDefault(v, d) == IF v.t = "undefined" THEN d ELSE v

(***************************************************************************)
(* Numbers.  A Number is NaN, or a sign with a magnitude that is infinite, *)
(* zero (no digits), or 0.d1 d2 ... dn x 10^exp with d1 and dn not 0: the  *)
(* exact decimal expansion of the double.                                  *)
(***************************************************************************)
NaN == [nan |-> TRUE, neg |-> FALSE, inf |-> FALSE, digits |-> <<>>, exp |-> 0]
Infinity(neg) == [nan |-> FALSE, neg |-> neg, inf |-> TRUE, digits |-> <<>>, exp |-> 0]

RECURSIVE LeadingZeros(_)
LeadingZeros(ds) ==
    IF ds = <<>> \/ Head(ds) # 0 THEN 0 ELSE 1 + LeadingZeros(Tail(ds))

RECURSIVE DropTrailingZeros(_)
DropTrailingZeros(ds) ==
    IF ds = <<>> \/ ds[Len(ds)] # 0 THEN ds
    ELSE DropTrailingZeros(SubSeq(ds, 1, Len(ds) - 1))

\* the real number 0.ds x 10^e, signed
Real(neg, ds, e) ==
    LET z == LeadingZeros(ds)
        core == DropTrailingZeros(SubSeq(ds, z + 1, Len(ds)))
    IN  [nan |-> FALSE, neg |-> neg, inf |-> FALSE, digits |-> core,
         exp |-> IF core = <<>> THEN 0 ELSE e - z]

Reverse(s) == [i \in 1..Len(s) |-> s[Len(s) + 1 - i]]

\* rev * m + carry, on decimal digits with the least significant first
RECURSIVE TimesRev(_, _, _)
TimesRev(rev, m, carry) ==
    IF rev = <<>>
    THEN IF carry = 0 THEN <<>> ELSE <<carry % 10>> \o TimesRev(<<>>, m, carry \div 10)
    ELSE LET t == Head(rev) * m + carry
         IN  <<t % 10>> \o TimesRev(Tail(rev), m, t \div 10)

\* the integer with the digits ds in the base, for a few digits
RECURSIVE RadixValue(_, _)
RadixValue(ds, base) ==
    IF ds = <<>> THEN 0
    ELSE RadixValue(SubSeq(ds, 1, Len(ds) - 1), base) * base + ds[Len(ds)]

RECURSIVE Power(_, _)
Power(base, n) == IF n = 0 THEN 1 ELSE base * Power(base, n - 1)

\* the integer with the digits ds in the base (2, 8 or 16), as decimal digits
\* with the least significant first; 24 bits of ds are taken at a step
RECURSIVE RadixRev(_, _)
RadixRev(ds, base) ==
    LET step == IF base = 16 THEN 6 ELSE IF base = 8 THEN 8 ELSE 24
        n == Len(ds)
        k == IF n < step THEN n ELSE step
    IN  IF ds = <<>> THEN <<>>
        ELSE TimesRev(RadixRev(SubSeq(ds, 1, n - k), base), Power(base, k),
                      RadixValue(SubSeq(ds, n - k + 1, n), base))

Integer(ds, base) ==
    LET p == Reverse(RadixRev(ds, base)) IN Real(FALSE, p, Len(p))

RECURSIVE IntDigits(_)
IntDigits(n) == IF n < 10 THEN <<n>> ELSE IntDigits(n \div 10) \o <<n % 10>>

\* the Number of an integer of the model
Number(n) ==
    LET ds == IntDigits(IF n < 0 THEN 0 - n ELSE n) IN Real(n < 0, ds, Len(ds))

\* -1, 0, 1: the order of 0.a and 0.b
CompareDigits(a, b) ==
    LET n == IF Len(a) < Len(b) THEN Len(b) ELSE Len(a)
        da(i) == IF i <= Len(a) THEN a[i] ELSE 0
        db(i) == IF i <= Len(b) THEN b[i] ELSE 0
    IN  IF \A i \in 1..n : da(i) = db(i) THEN 0
        ELSE LET i == CHOOSE j \in 1..n : da(j) # db(j) /\ \A k \in 1..(j - 1) : da(k) = db(k)
             IN  IF da(i) < db(i) THEN -1 ELSE 1

\* -1, 0, 1: the order of |a| and |b|
CompareMagnitude(a, b) ==
    IF a.inf \/ b.inf THEN (IF a.inf /\ b.inf THEN 0 ELSE IF a.inf THEN 1 ELSE -1)
    ELSE IF a.digits = <<>> \/ b.digits = <<>>
    THEN (IF a.digits = b.digits THEN 0 ELSE IF a.digits = <<>> THEN -1 ELSE 1)
    ELSE IF a.exp # b.exp THEN (IF a.exp < b.exp THEN -1 ELSE 1)
    ELSE CompareDigits(a.digits, b.digits)

Sign(a) == IF ~a.inf /\ a.digits = <<>> THEN 0 ELSE IF a.neg THEN -1 ELSE 1

\* a < b on Numbers: false when either is NaN
LessThan(a, b) ==
    /\ ~a.nan /\ ~b.nan
    /\ \/ Sign(a) < Sign(b)
       \/ Sign(a) = 1 /\ Sign(b) = 1 /\ CompareMagnitude(a, b) = -1
       \/ Sign(a) = -1 /\ Sign(b) = -1 /\ CompareMagnitude(a, b) = 1

(***************************************************************************)
(* ToDouble: the double nearest a real number, ties to even.  Rounding is  *)
(* monotonic, so it changes the order of a real with 0, 1, 30 or Infinity  *)
(* only for the reals that round to one of these; every other real stands  *)
(* for its double.  The bounds are the exact midpoints between neighbouring*)
(* doubles: 1 has the neighbours 1 - 2^-53 and 1 + 2^-52, 30 has           *)
(* 30 - 2^-48 and 30 + 2^-48, the largest double is 2^1024 - 2^971, the    *)
(* smallest 2^-1074.  1, 30, 0 and 2^1024 are the even ones of each tie.   *)
(***************************************************************************)
\* 1 - 2^-54
OneLow ==
    Real(FALSE,
         <<9,9,9,9,9,9,9,9,9,9,9,9,9,9,9,9,4,4,4,8,8,8,4,8,7,6,8,7,4,2,1,7,2,
           9,7,8,8,1,8,4,1,6,5,9,5,4,5,8,9,8,4,3,7,5>>,
         0)

\* 1 + 2^-53
OneHigh ==
    Real(FALSE,
         <<1,0,0,0,0,0,0,0,0,0,0,0,0,0,0,0,1,1,1,0,2,2,3,0,2,4,6,2,5,1,5,6,5,
           4,0,4,2,3,6,3,1,6,6,8,0,9,0,8,2,0,3,1,2,5>>,
         1)

\* 30 - 2^-49
ThirtyLow ==
    Real(FALSE,
         <<2,9,9,9,9,9,9,9,9,9,9,9,9,9,9,9,8,2,2,3,6,4,3,1,6,0,5,9,9,7,4,9,5,
           3,5,3,2,2,1,8,9,3,3,1,0,5,4,6,8,7,5>>,
         2)

\* 30 + 2^-49
ThirtyHigh ==
    Real(FALSE,
         <<3,0,0,0,0,0,0,0,0,0,0,0,0,0,0,0,1,7,7,6,3,5,6,8,3,9,4,0,0,2,5,0,4,
           6,4,6,7,7,8,1,0,6,6,8,9,4,5,3,1,2,5>>,
         2)

\* 2^1024 - 2^970
OverflowBound ==
    Real(FALSE,
         <<1,7,9,7,6,9,3,1,3,4,8,6,2,3,1,5,8,0,7,9,3,7,2,8,9,7,1,4,0,5,3,0,3,
           4,1,5,0,7,9,9,3,4,1,3,2,7,1,0,0,3,7,8,2,6,9,3,6,1,7,3,7,7,8,9,8,0,
           4,4,4,9,6,8,2,9,2,7,6,4,7,5,0,9,4,6,6,4,9,0,1,7,9,7,7,5,8,7,2,0,7,
           0,9,6,3,3,0,2,8,6,4,1,6,6,9,2,8,8,7,9,1,0,9,4,6,5,5,5,5,4,7,8,5,1,
           9,4,0,4,0,2,6,3,0,6,5,7,4,8,8,6,7,1,5,0,5,8,2,0,6,8,1,9,0,8,9,0,2,
           0,0,0,7,0,8,3,8,3,6,7,6,2,7,3,8,5,4,8,4,5,8,1,7,7,1,1,5,3,1,7,6,4,
           4,7,5,7,3,0,2,7,0,0,6,9,8,5,5,5,7,1,3,6,6,9,5,9,6,2,2,8,4,2,9,1,4,
           8,1,9,8,6,0,8,3,4,9,3,6,4,7,5,2,9,2,7,1,9,0,7,4,1,6,8,4,4,4,3,6,5,
           5,1,0,7,0,4,3,4,2,7,1,1,5,5,9,6,9,9,5,0,8,0,9,3,0,4,2,8,8,0,1,7,7,
           9,0,4,1,7,4,4,9,7,7,9,2>>,
         309)

\* 2^-1075
UnderflowBound ==
    Real(FALSE,
         <<2,4,7,0,3,2,8,2,2,9,2,0,6,2,3,2,7,2,0,8,8,2,8,4,3,9,6,4,3,4,1,1,0,
           6,8,6,1,8,2,5,2,9,9,0,1,3,0,7,1,6,2,3,8,2,2,1,2,7,9,2,8,4,1,2,5,0,
           3,3,7,7,5,3,6,3,5,1,0,4,3,7,5,9,3,2,6,4,9,9,1,8,1,8,0,8,1,7,9,9,6,
           1,8,9,8,9,8,2,8,2,3,4,7,7,2,2,8,5,8,8,6,5,4,6,3,3,2,8,3,5,5,1,7,7,
           9,6,9,8,9,8,1,9,9,3,8,7,3,9,8,0,0,5,3,9,0,9,3,9,0,6,3,1,5,0,3,5,6,
           5,9,5,1,5,5,7,0,2,2,6,3,9,2,2,9,0,8,5,8,3,9,2,4,4,9,1,0,5,1,8,4,4,
           3,5,9,3,1,8,0,2,8,4,9,9,3,6,5,3,6,1,5,2,5,0,0,3,1,9,3,7,0,4,5,7,6,
           7,8,2,4,9,2,1,9,3,6,5,6,2,3,6,6,9,8,6,3,6,5,8,4,8,0,7,5,7,0,0,1,5,
           8,5,7,6,9,2,6,9,9,0,3,7,0,6,3,1,1,9,2,8,2,7,9,5,5,8,5,5,1,3,3,2,9,
           2,7,8,3,4,3,3,8,4,0,9,3,5,1,9,7,8,0,1,5,5,3,1,2,4,6,5,9,7,2,6,3,5,
           7,9,5,7,4,6,2,2,7,6,6,4,6,5,2,7,2,8,2,7,2,2,0,0,5,6,3,7,4,0,0,6,4,
           8,5,4,9,9,9,7,7,0,9,6,5,9,9,4,7,0,4,5,4,0,2,0,8,2,8,1,6,6,2,2,6,2,
           3,7,8,5,7,3,9,3,4,5,0,7,3,6,3,3,9,0,0,7,9,6,7,7,6,1,9,3,0,5,7,7,5,
           0,6,7,4,0,1,7,6,3,2,4,6,7,3,6,0,0,9,6,8,9,5,1,3,4,0,5,3,5,5,3,7,4,
           5,8,5,1,6,6,6,1,1,3,4,2,2,3,7,6,6,6,7,8,6,0,4,1,6,2,1,5,9,6,8,0,4,
           6,1,9,1,4,4,6,7,2,9,1,8,4,0,3,0,0,5,3,0,0,5,7,5,3,0,8,4,9,0,4,8,7,
           6,5,3,9,1,7,1,1,3,8,6,5,9,1,6,4,6,2,3,9,5,2,4,9,1,2,6,2,3,6,5,3,8,
           8,1,8,7,9,6,3,6,2,3,9,3,7,3,2,8,0,4,2,3,8,9,1,0,1,8,6,7,2,3,4,8,4,
           9,7,6,6,8,2,3,5,0,8,9,8,6,3,3,8,8,5,8,7,9,2,5,6,2,8,3,0,2,7,5,5,9,
           9,5,6,5,7,5,2,4,4,5,5,5,0,7,2,5,5,1,8,9,3,1,3,6,9,0,8,3,6,2,5,4,7,
           7,9,1,8,6,9,4,8,6,6,7,9,9,4,9,6,8,3,2,4,0,4,9,7,0,5,8,2,1,0,2,8,5,
           1,3,1,8,5,4,5,1,3,9,6,2,1,3,8,3,7,7,2,2,8,2,6,1,4,5,4,3,7,6,9,3,4,
           1,2,5,3,2,0,9,8,5,9,1,3,2,7,6,6,7,2,3,6,3,2,8,1,2,5>>,
         -323)

\* lo <= |x| <= hi
Within(x, lo, hi) == CompareMagnitude(lo, x) <= 0 /\ CompareMagnitude(x, hi) <= 0

ToDouble(x) ==
    IF x.nan \/ x.inf \/ x.digits = <<>> THEN x
    ELSE IF CompareMagnitude(x, OverflowBound) >= 0 THEN Infinity(x.neg)
    ELSE IF CompareMagnitude(x, UnderflowBound) <= 0 THEN Real(x.neg, <<>>, 0)
    ELSE IF Within(x, OneLow, OneHigh) THEN Real(x.neg, <<1>>, 1)
    ELSE IF Within(x, ThirtyLow, ThirtyHigh) THEN Real(x.neg, <<3>>, 2)
    ELSE x

(***************************************************************************)
(* ToNumber: the StringNumericLiteral grammar, and the other types.        *)
(***************************************************************************)
Digits == {"0", "1", "2", "3", "4", "5", "6", "7", "8", "9"}
DigitValue(c) == CHOOSE d \in 0..9 : ToString(d) = c

RECURSIVE DecimalValue(_)
DecimalValue(s) ==
    IF s = <<>> THEN 0 ELSE 10 * DecimalValue(SubSeq(s, 1, Len(s) - 1)) + DigitValue(s[Len(s)])

HexLower ==
    <<"0", "1", "2", "3", "4", "5", "6", "7", "8", "9", "a", "b", "c", "d", "e", "f">>
HexUpper ==
    <<"0", "1", "2", "3", "4", "5", "6", "7", "8", "9", "A", "B", "C", "D", "E", "F">>

\* c is a digit of the base (2, 8, 10 or 16)
IsDigitIn(c, base) == \E i \in 1..base : c = HexLower[i] \/ c = HexUpper[i]

AllDigitsIn(s, base) == \A i \in 1..Len(s) : IsDigitIn(s[i], base)

\* the values of the digits of s
DigitsIn(s) ==
    [i \in 1..Len(s) |-> (CHOOSE d \in 1..16 : s[i] = HexLower[d] \/ s[i] = HexUpper[d]) - 1]

\* the first index of s holding a character of cs, 0 when there is none
FirstIndex(s, cs) ==
    IF \E i \in 1..Len(s) : s[i] \in cs
    THEN CHOOSE i \in 1..Len(s) : s[i] \in cs /\ \A j \in 1..(i - 1) : s[j] \notin cs
    ELSE 0

\* ExponentPart after its e: an optional sign and decimal digits.  An exponent
\* of more than nine digits counts as 999999999: far beyond overflow or underflow.
ExponentOf(x) ==
    LET signed == x # <<>> /\ x[1] \in {"+", "-"}
        ds == IF signed THEN Tail(x) ELSE x
        z == LeadingZeros(DigitsIn(ds))
        sig == SubSeq(ds, z + 1, Len(ds))
        magnitude == IF Len(sig) > 9 THEN 999999999 ELSE DecimalValue(sig)
    IN  IF ds # <<>> /\ AllDigitsIn(ds, 10)
        THEN [ok |-> TRUE, value |-> IF signed /\ x[1] = "-" THEN 0 - magnitude ELSE magnitude]
        ELSE [ok |-> FALSE, value |-> 0]

InfinityChars == <<"I", "n", "f", "i", "n", "i", "t", "y">>

\* StrUnsignedDecimalLiteral u under the sign neg: Infinity, or digits with an
\* optional point and an optional exponent, one digit at least
DecimalLiteral(neg, u) ==
    IF u = InfinityChars THEN Infinity(neg)
    ELSE LET ePos == FirstIndex(u, {"e", "E"})
             mant == IF ePos = 0 THEN u ELSE SubSeq(u, 1, ePos - 1)
             ex == IF ePos = 0 THEN [ok |-> TRUE, value |-> 0]
                   ELSE ExponentOf(SubSeq(u, ePos + 1, Len(u)))
             dot == FirstIndex(mant, {"."})
             int == IF dot = 0 THEN mant ELSE SubSeq(mant, 1, dot - 1)
             frac == IF dot = 0 THEN <<>> ELSE SubSeq(mant, dot + 1, Len(mant))
         IN  IF /\ ex.ok
                /\ AllDigitsIn(int, 10) /\ AllDigitsIn(frac, 10)
                /\ Len(int) + Len(frac) > 0
             THEN ToDouble(Real(neg, DigitsIn(int \o frac), Len(int) + ex.value))
             ELSE NaN

\* ToNumber of a string: white space around is stripped; blank is 0; 0x, 0o, 0b
\* numerals take no sign; other text is NaN
StringToNumber(s) ==
    LET core == Trim(s)
        prefixed == Len(core) >= 2 /\ core[1] = "0"
                       /\ core[2] \in {"x", "X", "o", "O", "b", "B"}
        base == IF core[2] \in {"x", "X"} THEN 16 ELSE IF core[2] \in {"o", "O"} THEN 8 ELSE 2
        body == SubSeq(core, 3, Len(core))
    IN  IF core = <<>> THEN Number(0)
        ELSE IF prefixed
        THEN IF body # <<>> /\ AllDigitsIn(body, base)
             THEN ToDouble(Integer(DigitsIn(body), base))
             ELSE NaN
        ELSE IF core[1] \in {"+", "-"} THEN DecimalLiteral(core[1] = "-", Tail(core))
        ELSE DecimalLiteral(FALSE, core)

\* ToString of a value whose strings are sequences of characters, and
\* Array.prototype.join on such values: the string, or the TypeError thrown
RECURSIVE ToChars(_), JoinChars(_, _)
ToChars(v) ==
    IF ~Converts(v) THEN Thrown(PrimitiveError)
    ELSE IF v.t = "string" THEN v.v
    ELSE IF v.t = "number"
    THEN LET ds == IntDigits(IF v.v < 0 THEN 0 - v.v ELSE v.v)
         IN  (IF v.v < 0 THEN <<"-">> ELSE <<>>) \o [i \in 1..Len(ds) |-> ToString(ds[i])]
    ELSE IF v.t = "boolean"
    THEN (IF v.v THEN <<"t", "r", "u", "e">> ELSE <<"f", "a", "l", "s", "e">>)
    ELSE IF v.t = "array" THEN JoinChars(v.v, <<",">>)
    ELSE IF v.t = "object"
    THEN <<"[", "o", "b", "j", "e", "c", "t", " ", "O", "b", "j", "e", "c", "t", "]">>
    ELSE IF v.t = "null" THEN <<"n", "u", "l", "l">>
    ELSE <<"u", "n", "d", "e", "f", "i", "n", "e", "d">>

JoinChars(xs, sep) ==
    IF ~Converts(Arr(xs)) THEN Thrown(PrimitiveError)
    ELSE IF xs = <<>> THEN <<>>
    ELSE LET h == IF Head(xs).t \in {"undefined", "null"} THEN <<>> ELSE ToChars(Head(xs))
         IN  IF Len(xs) = 1 THEN h ELSE h \o sep \o JoinChars(Tail(xs), sep)

\* ToNumber, as the relational operators apply it to an operand; an array or an
\* object is converted through its string: the Number, or the TypeError thrown
ToNumber(v) ==
    IF ~Converts(v) THEN Thrown(PrimitiveError)
    ELSE IF v.t = "number" THEN Number(v.v)
    ELSE IF v.t = "null" THEN Number(0)
    ELSE IF v.t = "boolean" THEN Number(IF v.v THEN 1 ELSE 0)
    ELSE IF v.t = "string" THEN StringToNumber(v.v)
    ELSE IF v.t \in {"array", "object"} THEN StringToNumber(ToChars(v))
    ELSE NaN

\* ToString of a value whose strings are atoms, and Array.prototype.join on
\* such values: the string, or the TypeError thrown
RECURSIVE ToText(_), JoinText(_, _)
ToText(v) ==
    IF ~Converts(v) THEN Thrown(PrimitiveError)
    ELSE IF v.t = "string" THEN v.v
    ELSE IF v.t = "number" THEN ToString(v.v)
    ELSE IF v.t = "boolean" THEN (IF v.v THEN "true" ELSE "false")
    ELSE IF v.t = "array" THEN JoinText(v.v, ",")
    ELSE IF v.t = "object" THEN "[object Object]"
    ELSE IF v.t = "null" THEN "null"
    ELSE "undefined"

JoinText(xs, sep) ==
    IF ~Converts(Arr(xs)) THEN Thrown(PrimitiveError)
    ELSE IF xs = <<>> THEN ""
    ELSE LET h == IF Head(xs).t \in {"undefined", "null"} THEN "" ELSE ToText(Head(xs))
         IN  IF Len(xs) = 1 THEN h ELSE h \o sep \o JoinText(Tail(xs), sep)

\* xs.join(', ')
JoinComma(xs) == JoinText(xs, ", ")

\* xs.filter(x => !valid.includes(x)), valid an array of strings
RECURSIVE FilterNotIn(_, _)
FilterNotIn(xs, valid) ==
    IF xs = <<>> THEN <<>>
    ELSE IF Head(xs).t = "string" /\ Head(xs).v \in valid THEN FilterNotIn(Tail(xs), valid)
    ELSE <<Head(xs)>> \o FilterNotIn(Tail(xs), valid)

(***************************************************************************)
(* POST /generate                                                          *)
(***************************************************************************)
MinQuestions == 1
MaxQuestions == 30
DefaultQuestions == 10

validDifficulties == {"easy", "medium", "hard"}
validQuestionTypes == {"multiple-choice", "true-false", "fill-in-blank", "topic-specific"}

badRequest(message) ==
    [status |-> 400, success |-> FALSE, error |-> message, content |-> <<>>,
     contentLength |-> 0]

\* The destructuring of req.body with its defaults: the options of generateQuiz.
generateOptions(body) ==
    [content |-> body.content,
     numberOfQuestions |-> WithDefault(body.numberOfQuestions, Num(DefaultQuestions)),
     difficulty |-> WithDefault(body.difficulty, Str("medium")),
     questionTypes |-> WithDefault(body.questionTypes, Arr(<<Str("multiple-choice")>>)),
     specificTopics |-> WithDefault(body.specificTopics, Arr(<<>>)),
     prioritizeImportant |-> WithDefault(body.prioritizeImportant, Bool(TRUE))]

\* The handler up to the call of quizGenerator.generateQuiz: what it answers
\* (respond), the TypeError it throws into its catch block (throw), or the
\* call of generateQuiz with the options (call).
generateHandler(body) ==
    LET o == generateOptions(body)
        content == o.content
        numberOfQuestions == o.numberOfQuestions
        difficulty == o.difficulty
        questionTypes == o.questionTypes
        invalidTypes == FilterNotIn(questionTypes.v, validQuestionTypes)
    IN  IF Falsy(content)
        THEN [kind |-> "respond", response |-> badRequest("Content is required to generate quiz")]
        ELSE IF content.t # "string"
        THEN [kind |-> "throw", response |-> errorMiddleware(0, "content.trim is not a function")]
        ELSE IF Trim(content.v) = <<>>
        THEN [kind |-> "respond", response |-> badRequest("Content is required to generate quiz")]
        ELSE IF ~Converts(numberOfQuestions)
        THEN [kind |-> "throw", response |-> errorMiddleware(0, PrimitiveError)]
        ELSE IF \/ LessThan(ToNumber(numberOfQuestions), Number(MinQuestions))
                \/ LessThan(Number(MaxQuestions), ToNumber(numberOfQuestions))
        THEN [kind |-> "respond",
              response |-> badRequest("Number of questions must be between 1 and 30")]
        ELSE IF ~(difficulty.t = "string" /\ difficulty.v \in validDifficulties)
        THEN [kind |-> "respond",
              response |-> badRequest("Difficulty must be: easy, medium, or hard")]
        ELSE IF questionTypes.t = "null"
        THEN [kind |-> "throw",
              response |-> errorMiddleware(0, "Cannot read properties of null (reading 'filter')")]
        ELSE IF questionTypes.t # "array"
        THEN [kind |-> "throw",
              response |-> errorMiddleware(0, "questionTypes.filter is not a function")]
        ELSE IF Len(invalidTypes) > 0 /\ ~Converts(Arr(invalidTypes))
        THEN [kind |-> "throw", response |-> errorMiddleware(0, PrimitiveError)]
        ELSE IF Len(invalidTypes) > 0
        THEN [kind |-> "respond",
              response |-> badRequest("Invalid question types: " \o JoinComma(invalidTypes))]
        ELSE [kind |-> "call", response |-> NoResponse]

(***************************************************************************)
(* QuizGenerator.generateQuiz                                              *)
(***************************************************************************)
PromptContentLimit == 12000

\* the characters of a string, as one string
RECURSIVE CharsToText(_)
CharsToText(cs) == IF cs = <<>> THEN "" ELSE Head(cs) \o CharsToText(Tail(cs))

\* content.substring(0, limit)
Substring0(cs, limit) == SubSeq(cs, 1, IF Len(cs) < limit THEN Len(cs) ELSE limit)

\* difficulty.toUpperCase(), of the difficulties the handler lets through
toUpperCase(d) ==
    CASE d = "easy" -> "EASY"
      [] d = "medium" -> "MEDIUM"
      [] d = "hard" -> "HARD"

\* questionTypes.includes(name)
Includes(xs, name) == \E i \in 1..Len(xs) : xs[i] = Str(name)

\* buildUserPrompt(options), of options the handler lets through (a count that
\* converts, a valid difficulty, an array of valid question types): the prompt,
\* or the TypeError that specificTopics makes the template literal throw.
buildUserPrompt(options) ==
    LET specificTopics == options.specificTopics
        nullish == specificTopics.t \in {"undefined", "null"}
        len == IF nullish THEN Undefined ELSE LengthOf(specificTopics)
        positive == Converts(len) /\ LessThan(Number(0), ToNumber(len))
        count == CharsToText(ToChars(options.numberOfQuestions))
        types == options.questionTypes.v
        topics == IF positive
                  THEN "- Focus on these topics: " \o JoinComma(specificTopics.v)
                  ELSE "- Cover all major topics from the content"
        important == IF Falsy(options.prioritizeImportant) THEN ""
                     ELSE "- Prioritize frequently mentioned and high-importance concepts"
    IN  IF nullish
        THEN Thrown("Cannot read properties of " \o specificTopics.t \o " (reading 'length')")
        ELSE IF ~Converts(len) THEN Thrown(PrimitiveError)
        ELSE IF positive /\ specificTopics.t # "array"
        THEN Thrown("specificTopics.join is not a function")
        ELSE IF positive /\ ~Converts(specificTopics) THEN Thrown(PrimitiveError)
        ELSE Returned(
            "Generate a quiz with exactly " \o count
            \o " questions from the following educational content.\n\nREQUIREMENTS:\n"
            \o "- Difficulty Level: " \o toUpperCase(options.difficulty.v) \o "\n"
            \o "- Question Types: " \o JoinComma(types) \o "\n"
            \o topics \o "\n" \o important \o "\n\n"
            \o "DIFFICULTY GUIDELINES:\n"
            \o "- Easy: Basic recall, definitions, simple facts\n"
            \o "- Medium: Application of concepts, understanding relationships\n"
            \o "- Hard: Analysis, synthesis, complex problem-solving\n\n"
            \o "QUESTION TYPE SPECIFICATIONS:\n"
            \o (IF Includes(types, "multiple-choice")
                THEN "- Multiple Choice: 4 options (A, B, C, D), one correct answer\n" ELSE "")
            \o (IF Includes(types, "true-false")
                THEN "- True/False: Statement that is clearly true or false\n" ELSE "")
            \o (IF Includes(types, "fill-in-blank")
                THEN "- Fill in the Blank: Sentence with key term removed, indicated by _____\n"
                ELSE "")
            \o (IF Includes(types, "topic-specific")
                THEN "- Topic-Specific: Deep questions on specific topics mentioned\n" ELSE "")
            \o "\nEDUCATIONAL CONTENT:\n---\n"
            \o CharsToText(Substring0(options.content.v, PromptContentLimit))
            \o "\n---\n\nGenerate the quiz now. Ensure all " \o count
            \o " questions are unique and well-distributed across the content."
            \o " Return valid JSON only.")

\* Request bodies.
NoToString == Obj(<<Prop("toString", Num(1))>>)

ContentInputs ==
    {Undefined, Null, Num(0), Num(5), Str(<<>>), Str(<<" ", "\n">>), Str(<<NBSP>>),
     Str(<<"a">>), Str(<<" ", "a", " ">>), Obj(<<>>)}
QuestionCountInputs ==
    {Undefined, Null} \cup {Num(n) : n \in {0, 1, 30, 31}}
        \cup {Str(<<>>), Str(<<"5">>), Str(<<"4", "5">>), Str(<<"a", "b", "c">>),
              Str(<<"-", "1">>), Str(<<"1", "e", "2">>), Str(<<"0", "x", "1", "F">>),
              Arr(<<>>), Arr(<<Str(<<"5", "0">>)>>), Obj(<<>>), NoToString,
              Arr(<<NoToString>>)}
DifficultyInputs == {Undefined, Null, Str("easy"), Str("hard"), Str("extreme")}
TypeNames == validQuestionTypes \cup {"essay"}

RECURSIVE TypeArrays(_)
TypeArrays(n) ==
    IF n = 0 THEN {<<>>}
    ELSE LET shorter == TypeArrays(n - 1)
         IN  shorter \cup {Append(xs, Str(x)) : xs \in {ys \in shorter : Len(ys) = n - 1},
                                                 x \in TypeNames}

QuestionTypeInputs ==
    {Undefined, Null, Str("multiple-choice"), Obj(<<>>), Arr(<<NoToString>>)}
        \cup {Arr(xs) : xs \in TypeArrays(MaxTypes)}
SpecificTopicsInputs ==
    {Undefined, Null, Num(5), Str(<<>>), Str(<<"x">>), Arr(<<>>), Arr(<<Str("Algebra")>>),
     Arr(<<Str("Algebra"), Num(2), Null>>), Arr(<<NoToString>>), Obj(<<>>),
     Obj(<<Prop("length", Num(1))>>), Obj(<<Prop("length", Num(0))>>),
     Obj(<<Prop("length", NoToString)>>)}
PrioritizeInputs == {Undefined, Bool(FALSE), Str("yes")}

\* The bodies of the requests: every combination of the fields the handler
\* validates, and, for bodies that pass, of the fields that only the prompt reads.
Bodies ==
    {[content |-> c, numberOfQuestions |-> n, difficulty |-> d, questionTypes |-> q,
      specificTopics |-> Undefined, prioritizeImportant |-> Undefined] :
        c \in ContentInputs, n \in QuestionCountInputs, d \in DifficultyInputs,
        q \in QuestionTypeInputs}
    \cup
    {[content |-> c, numberOfQuestions |-> n, difficulty |-> Str("hard"), questionTypes |-> q,
      specificTopics |-> t, prioritizeImportant |-> p] :
        c \in {Str(<<"a">>), Str(<<" ", "a", " ">>)},
        n \in {Undefined, Arr(<<Str(<<"5">>)>>)},
        q \in {Undefined, Arr(<<Str("true-false"), Str("fill-in-blank")>>)},
        t \in SpecificTopicsInputs, p \in PrioritizeInputs}

NoBody ==
    [content |-> Undefined, numberOfQuestions |-> Undefined, difficulty |-> Undefined,
     questionTypes |-> Undefined, specificTopics |-> Undefined,
     prioritizeImportant |-> Undefined]

IdleGen ==
    [pc |-> "idle", body |-> NoBody, calls |-> 0, llmCalls |-> 0, sent |-> "",
     outcome |-> NoOutcome, response |-> NoResponse]

InitGenerate ==
    /\ clock = 0
    /\ fs = <<>>
    /\ req = <<>>
    /\ text = <<>>
    /\ prev = <<>>
    /\ applied = 0
    /\ gen = IdleGen
    /\ chat = <<>>

\* POST /generate arrives: the handler validates the body and answers, or calls
\* generateQuiz, which builds its prompts and either throws while building them
\* or sends them and awaits the completion; the handler waits at its await.
GenerateRequest ==
    /\ gen.pc = "idle"
    /\ \E body \in Bodies :
          LET h == generateHandler(body)
              p == buildUserPrompt(generateOptions(body))
          IN  gen' = IF h.kind # "call"
                     THEN [gen EXCEPT !.pc = "done", !.body = body, !.response = h.response]
                     ELSE IF p.ok
                     THEN [gen EXCEPT !.pc = "generating", !.body = body, !.calls = 1,
                                      !.llmCalls = 1, !.sent = p.text]
                     ELSE [gen EXCEPT !.pc = "settled", !.body = body, !.calls = 1,
                                      !.outcome = p]
    /\ UNCHANGED <<clock, fs, req, text, prev, applied, chat>>

\* The completion arrives or fails: generateQuiz returns the quiz, or throws
\* 'Failed to generate quiz: ...'.
GenerateSettle ==
    /\ gen.pc = "generating"
    /\ \E lib \in LibOutcomes :
          gen' = [gen EXCEPT !.pc = "settled",
                             !.outcome = IF lib.ok THEN Returned(<<>>)
                                         ELSE Thrown("Failed to generate quiz: " \o lib.cause)]
    /\ UNCHANGED <<clock, fs, req, text, prev, applied, chat>>

\* The handler resumes after its await: res.json(...) with the quiz, or
\* next(error) and the answer of the error middleware.
GenerateRespond ==
    /\ gen.pc = "settled"
    /\ gen' = [gen EXCEPT !.pc = "done", !.response = respond(gen.outcome)]
    /\ UNCHANGED <<clock, fs, req, text, prev, applied, chat>>

NextGenerate == GenerateRequest \/ GenerateSettle \/ GenerateRespond

SpecGenerate == InitGenerate /\ [][NextGenerate]_vars

\* content is a string with a character that is not white space
NonBlankContent(c) == c.t = "string" /\ \E i \in 1..Len(c.v) : c.v[i] \notin WhiteSpace

\* n, or the default 10 when absent, is a number from 1 to 30 or a numeral for one
CountInRange(n) ==
    \/ n.t = "undefined"
    \/ n.t = "number" /\ 1 <= n.v /\ n.v <= 30
    \/ /\ n.t = "string" /\ n.v # <<>>
       /\ \A i \in 1..Len(n.v) : n.v[i] \in Digits
       /\ 1 <= DecimalValue(n.v) /\ DecimalValue(n.v) <= 30

DifficultyValid(d) == d.t = "undefined" \/ (d.t = "string" /\ d.v \in {"easy", "medium", "hard"})

TypesValid(q) ==
    \/ q.t = "undefined"
    \/ /\ q.t = "array"
       /\ \A i \in 1..Len(q.v) :
             /\ q.v[i].t = "string"
             /\ q.v[i].v \in {"multiple-choice", "true-false", "fill-in-blank", "topic-specific"}

ValidBody(b) ==
    /\ NonBlankContent(b.content)
    /\ CountInRange(b.numberOfQuestions)
    /\ DifficultyValid(b.difficulty)
    /\ TypesValid(b.questionTypes)

\* C11: POST /generate calls generateQuiz only for a body with non-blank content,
\* a question count from 1 to 30, a difficulty of easy/medium/hard and only valid
\* question types; every other body is answered 400 {success: false, error},
\* without a call of the LLM.
C11_GenerateOnlyWhenValid ==
    gen.pc # "idle" =>
        /\ gen.calls > 0 => ValidBody(gen.body)
        /\ ~ValidBody(gen.body) =>
              /\ gen.pc = "done"
              /\ gen.llmCalls = 0
              /\ gen.response.status = 400
              /\ ~gen.response.success
              /\ gen.response.error # ""


(***************************************************************************)
(* QuizGenerator.chatWithTutor                                             *)
(***************************************************************************)
\* the substitutions of the system prompt all convert to a string
promptConverts(question, correctAnswer, topic) ==
    /\ Converts(question)
    /\ Converts(correctAnswer)
    /\ Converts(IF Falsy(topic) THEN Str("General") ELSE topic)

\* the template literal of the system prompt; a substitution is converted with
\* ToString, which may throw.  The emoji of guideline 7, a code point that
\* cannot be written in a string here, stands as its name.
tutorSystemPrompt(question, correctAnswer, topic) ==
    IF ~promptConverts(question, correctAnswer, topic) THEN Thrown(PrimitiveError)
    ELSE "You are a friendly, patient AI tutor helping a student understand a quiz"
         \o " question they got wrong or are confused about.\n\n"
         \o "QUESTION CONTEXT:\n"
         \o "- Question: " \o ToText(question) \o "\n"
         \o "- Correct Answer: " \o ToText(correctAnswer) \o "\n"
         \o "- Topic: " \o ToText(IF Falsy(topic) THEN Str("General") ELSE topic) \o "\n\n"
         \o "GUIDELINES:\n"
         \o "1. Be encouraging and supportive - never make the student feel bad\n"
         \o "2. Explain concepts in simple terms\n"
         \o "3. Use analogies and real-world examples\n"
         \o "4. If they ask for more examples, provide different ones\n"
         \o "5. If they're still confused, try a completely different approach\n"
         \o "6. Keep responses conversational but educational\n"
         \o "7. Use emojis occasionally to be friendly U+1F60A\n"
         \o "8. If they understand, congratulate them!\n"
         \o "9. Answer any follow-up questions they have about this topic\n\n"
         \o "Remember: Your goal is to help them truly understand, not just memorize."

\* chatHistory && chatHistory.length > 0, when the length converts to a number
HasHistory(chatHistory) ==
    /\ ~Falsy(chatHistory)
    /\ LessThan(Number(0), ToNumber(LengthOf(chatHistory)))

\* msg.role, msg.content of an entry that is neither null nor undefined: the own
\* property of an object, undefined of any other value
PropertyOf(msg, key) == IF msg.t = "object" THEN GetOwn(msg, key) ELSE Undefined

\* the entries that have no properties to read
Nullish(xs) == {i \in 1..Len(xs) : xs[i].t \in {"undefined", "null"}}

\* what building the messages throws: "" when it throws nothing
historyError(chatHistory) ==
    IF Falsy(chatHistory) THEN ""
    ELSE IF ~Converts(LengthOf(chatHistory)) THEN PrimitiveError
    ELSE IF ~HasHistory(chatHistory) THEN ""
    ELSE IF chatHistory.t # "array" THEN "chatHistory.forEach is not a function"
    ELSE IF Nullish(chatHistory.v) # {}
    THEN LET first == CHOOSE i \in Nullish(chatHistory.v) :
                          \A j \in Nullish(chatHistory.v) : i <= j
         IN  "Cannot read properties of " \o chatHistory.v[first].t \o " (reading 'role')"
    ELSE ""

\* the messages array; built is FALSE when a TypeError (the length of
\* chatHistory does not convert, chatHistory.forEach is no function, an entry is
\* null) leaves chatWithTutor before anything is sent
chatMessages_skipsSingle(systemPrompt, chatHistory, userMessage) ==
    LET system == <<[role |-> Str("system"), content |-> Str(systemPrompt)]>>
        user == <<[role |-> Str("user"), content |-> userMessage]>>
    IN  IF historyError(chatHistory) # ""
        THEN [built |-> FALSE, messages |-> <<>>]
        ELSE IF ~HasHistory(chatHistory) \/ Len(chatHistory.v) = 1
        THEN [built |-> TRUE, messages |-> system \o user]
        ELSE [built |-> TRUE,
              messages |-> system
                  \o [i \in 1..Len(chatHistory.v) |->
                         [role |-> PropertyOf(chatHistory.v[i], "role"),
                          content |-> PropertyOf(chatHistory.v[i], "content")]]
                  \o user]

chatMessages(systemPrompt, chatHistory, userMessage) ==
    LET system == <<[role |-> Str("system"), content |-> Str(systemPrompt)]>>
        user == <<[role |-> Str("user"), content |-> userMessage]>>
    IN  IF historyError(chatHistory) # ""
        THEN [built |-> FALSE, messages |-> <<>>]
        ELSE IF ~HasHistory(chatHistory)
        THEN [built |-> TRUE, messages |-> system \o user]
        ELSE [built |-> TRUE,
              messages |-> system
                  \o [i \in 1..Len(chatHistory.v) |->
                         [role |-> PropertyOf(chatHistory.v[i], "role"),
                          content |-> PropertyOf(chatHistory.v[i], "content")]]
                  \o user]

\* chatWithTutor(options) up to  await this.openai.chat.completions.create : the
\* messages it sends, or the TypeError of the template literal or of the chat
\* history, thrown before anything is sent
chatWithTutor(options) ==
    IF ~promptConverts(options.question, options.correctAnswer, options.topic)
    THEN [sends |-> FALSE, messages |-> <<>>, message |-> PrimitiveError]
    ELSE LET m == chatMessages(tutorSystemPrompt(options.question, options.correctAnswer,
                                                 options.topic),
                               options.chatHistory, options.userMessage)
         IN  IF m.built THEN [sends |-> TRUE, messages |-> m.messages, message |-> ""]
             ELSE [sends |-> FALSE, messages |-> <<>>,
                   message |-> historyError(options.chatHistory)]

\* The POST /ai-chat handler up to the call of quizGenerator.chatWithTutor: what
\* it answers (respond), the TypeError it throws into its catch block (throw),
\* or the call (call).
chatHandler(body) ==
    IF Falsy(body.question) \/ Falsy(body.correctAnswer) \/ Falsy(body.userMessage)
    THEN [kind |-> "respond",
          response |-> badRequest("Question, correct answer, and user message are required")]
    ELSE IF body.userMessage.t # "string"
    THEN [kind |-> "throw",
          response |-> errorMiddleware(0, "userMessage.substring is not a function")]
    ELSE [kind |-> "call", response |-> NoResponse]

\* Inputs of a call.
Entry(role, content) ==
    Obj(<<Prop("role", Str(role)), Prop("content", Str(content)), Prop("timestamp", Num(1))>>)

HistoryEntries ==
    {Entry("user", "why?"), Entry("assistant", "because"), Entry("system", "be brief"),
     Obj(<<>>), Num(5), Null}

RECURSIVE Histories(_)
Histories(n) ==
    IF n = 0 THEN {<<>>}
    ELSE LET shorter == Histories(n - 1)
         IN  shorter \cup {Append(h, e) : h \in {g \in shorter : Len(g) = n - 1},
                                          e \in HistoryEntries}

ChatHistoryInputs ==
    {Undefined, Null, Str(<<"o", "l", "d">>), Obj(<<>>), Obj(<<Prop("length", Num(1))>>),
     Obj(<<Prop("length", NoToString)>>)}
        \cup {Arr(h) : h \in Histories(MaxHistory)}
QuestionInputs == {Undefined, Str("2 + 2 = ?"), NoToString}
AnswerInputs == {Undefined, Str("4")}
UserMessages == {Undefined, Str(""), Str("explain again"), Str("thanks"), Num(5)}
TopicInputs == {Undefined, Str(""), Str("Algebra"), Num(5), Obj(<<>>), NoToString}

NoOptions ==
    [question |-> Undefined, correctAnswer |-> Undefined, chatHistory |-> Undefined,
     userMessage |-> Undefined, topic |-> Undefined]

\* pc: idle, awaiting (suspended at  await completions.create), settled
\* (chatWithTutor has returned or thrown; the handler of the route is suspended at
\* its await), done
IdleChat ==
    [pc |-> "idle", via |-> "none", called |-> FALSE, options |-> NoOptions, llmCalls |-> 0,
     sent |-> <<>>, result |-> [ok |-> FALSE, message |-> ""], response |-> NoResponse]

InitChat ==
    /\ clock = 0
    /\ fs = <<>>
    /\ req = <<>>
    /\ text = <<>>
    /\ prev = <<>>
    /\ applied = 0
    /\ gen = <<>>
    /\ chat = IdleChat

\* where a call that has settled goes: the caller of a direct call has its
\* result, the handler of the route has yet to answer
AfterSettle(via) == IF via = "route" THEN "settled" ELSE "done"

\* chatWithTutor(options) is called and runs to its await, or throws.
Called(via, options) ==
    LET c == chatWithTutor(options)
    IN  IF c.sends
        THEN [chat EXCEPT !.pc = "awaiting", !.via = via, !.called = TRUE,
                          !.options = options, !.llmCalls = 1, !.sent = c.messages]
        ELSE [chat EXCEPT !.pc = AfterSettle(via), !.via = via, !.called = TRUE,
                          !.options = options,
                          !.result = [ok |-> FALSE, message |-> c.message]]

\* A caller calls chatWithTutor(options) with options of its own.
ChatCall ==
    /\ chat.pc = "idle"
    /\ \E q \in QuestionInputs, a \in AnswerInputs, h \in ChatHistoryInputs,
          u \in UserMessages, topic \in TopicInputs :
          chat' = Called("direct", [question |-> q, correctAnswer |-> a, chatHistory |-> h,
                                    userMessage |-> u, topic |-> topic])
    /\ UNCHANGED <<clock, fs, req, text, prev, applied, gen>>

\* POST /ai-chat arrives: the handler validates the body and answers, or calls
\* chatWithTutor and waits at its await.
ChatRequest ==
    /\ chat.pc = "idle"
    /\ \E q \in QuestionInputs, a \in AnswerInputs, h \in ChatHistoryInputs,
          u \in UserMessages, topic \in TopicInputs :
          LET body == [question |-> q, correctAnswer |-> a, chatHistory |-> h,
                       userMessage |-> u, topic |-> topic]
              k == chatHandler(body)
          IN  chat' = IF k.kind = "call" THEN Called("route", body)
                      ELSE [chat EXCEPT !.pc = "done", !.via = "route", !.options = body,
                                        !.response = k.response]
    /\ UNCHANGED <<clock, fs, req, text, prev, applied, gen>>

\* The completion arrives or fails: chatWithTutor returns {message}, or throws
\* 'Failed to chat with AI: ...'.
ChatSettle ==
    /\ chat.pc = "awaiting"
    /\ \E lib \in LibOutcomes :
          chat' = [chat EXCEPT !.pc = AfterSettle(chat.via),
                               !.result = IF lib.ok THEN [ok |-> TRUE, message |-> "reply"]
                                          ELSE [ok |-> FALSE,
                                                message |-> "Failed to chat with AI: " \o lib.cause]]
    /\ UNCHANGED <<clock, fs, req, text, prev, applied, gen>>

\* The handler resumes after its await: res.json({success: true, data}), or
\* next(error) and the answer of the error middleware.
ChatRespond ==
    /\ chat.pc = "settled"
    /\ chat' = [chat EXCEPT !.pc = "done",
                            !.response = IF chat.result.ok THEN successResponse(<<>>)
                                         ELSE errorMiddleware(0, chat.result.message)]
    /\ UNCHANGED <<clock, fs, req, text, prev, applied, gen>>

NextChat == ChatCall \/ ChatRequest \/ ChatSettle \/ ChatRespond

SpecChat == InitChat /\ [][NextChat]_vars

\* the entries of the chatHistory handed over: none when it is no array
HistoryOf(v) == IF v.t = "array" THEN v.v ELSE <<>>

\* m is a message with role system
IsSystem(m) == m.role = Str("system")

\* chatHistory is absent, or a list of entries that are objects
ListOfEntries(v) ==
    \/ v.t \in {"undefined", "null"}
    \/ v.t = "array" /\ \A i \in 1..Len(v.v) : v.v[i].t = "object"

\* C12: for every chatWithTutor call, the messages sent to the LLM are exactly
\* one system message first, holding the system prompt of the call, then every
\* chatHistory entry in its order with its role and content, then the current
\* userMessage as the single last message, with role user: len(chatHistory) + 2
\* messages, 2 when chatHistory is absent or empty.  Nothing but the entries
\* adds a system message: the sequence has one when no entry has that role.  A
\* call whose substitutions convert and whose chatHistory is absent or a list of
\* entries sends this sequence, once; a call that sends nothing has thrown a
\* TypeError before the request.
C12_MessageSequence ==
    chat.called =>
        LET o == chat.options
            h == HistoryOf(o.chatHistory)
            n == Len(chat.sent)
        IN  /\ chat.llmCalls > 0 =>
                  /\ chat.llmCalls = 1
                  /\ n = Len(h) + 2
                  /\ chat.sent[1] =
                        [role |-> Str("system"),
                         content |-> Str(tutorSystemPrompt(o.question, o.correctAnswer, o.topic))]
                  /\ \A i \in 1..Len(h) :
                        chat.sent[i + 1] = [role |-> PropertyOf(h[i], "role"),
                                            content |-> PropertyOf(h[i], "content")]
                  /\ chat.sent[n] = [role |-> Str("user"), content |-> o.userMessage]
                  /\ (\A i \in 1..Len(h) : PropertyOf(h[i], "role") # Str("system"))
                        => Cardinality({i \in 1..n : IsSystem(chat.sent[i])}) = 1
                  /\ (o.chatHistory.t \in {"undefined", "null"} \/ h = <<>>) => n = 2
            /\ promptConverts(o.question, o.correctAnswer, o.topic)
                  /\ ListOfEntries(o.chatHistory) => chat.llmCalls = 1
            /\ chat.llmCalls = 0 =>
                  /\ chat.sent = <<>>
                  /\ chat.pc \in {"settled", "done"}
                  /\ ~chat.result.ok
                  /\ chat.result.message \in
                        {PrimitiveError, "chatHistory.forEach is not a function",
                         "Cannot read properties of null (reading 'role')"}

C12_Witness ==
    /\ chat.llmCalls = 1
    /\ Len(chat.sent) = 4
    /\ chat.options.chatHistory.t = "array"
    /\ chat.sent[2].role = Str("user") /\ chat.sent[3].role = Str("assistant")
    /\ chat.sent[2].content # chat.sent[3].content

====
